---------------------------- MODULE Spec2Model ----------------------------
(***************************************************************************)
(* Web-client call descriptors of gmusicapi (newprotocol/webclient.py):    *)
(* request builders (dynamic_data), the response pipeline                 *)
(* parse_response -> check_success -> validate, the log filter            *)
(* filter_response, and the exceptions of exceptions.py.                   *)
(*                                                                         *)
(* Python values are tagged records, one field name per tag, so that two   *)
(* values of different Python types are never equal by accident:           *)
(*   None  [t |-> "null"]            bool  [t |-> "bool",  b |-> FALSE]    *)
(*   int   [t |-> "int", n |-> 0]    float [t |-> "float", f |-> 0] (0.0)  *)
(*   str   [t |-> "str", s |-> "x"]  list  [t |-> "list",  l |-> <<..>>]   *)
(*   dict  [t |-> "dict", d |-> [key |-> value]]                           *)
(* JSON text is a sequence of lexical tokens [k |-> class, s |-> lexeme].  *)
(***************************************************************************)
EXTENDS Integers, Sequences, FiniteSets, TLC

-----------------------------------------------------------------------------
(* Python values *)

PyNone == [t |-> "null"]
PyBool(x) == [t |-> "bool", b |-> x]
PyInt(x) == [t |-> "int", n |-> x]
PyFloat(x) == [t |-> "float", f |-> x]
PyStr(x) == [t |-> "str", s |-> x]
PyList(x) == [t |-> "list", l |-> x]
PyDict(x) == [t |-> "dict", d |-> x]

EmptyDict == PyDict(<<>>)

\* bool(v): Python truth value, as used by `not v`.
Truthy(v) ==
    CASE v.t = "null" -> FALSE
      [] v.t = "bool" -> v.b
      [] v.t = "int" -> v.n # 0
      [] v.t = "float" -> v.f # 0
      [] v.t = "str" -> v.s # ""
      [] v.t = "list" -> Len(v.l) > 0
      [] v.t = "dict" -> DOMAIN v.d # {}

IsNumeric(v) == v.t \in {"bool", "int", "float"}

\* The number a bool, int or float stands for (True is 1, False is 0).
NumOf(v) ==
    CASE v.t = "bool" -> (IF v.b THEN 1 ELSE 0)
      [] v.t = "int" -> v.n
      [] v.t = "float" -> v.f

RECURSIVE PyEq(_, _)
\* a == b in Python: numbers compare by value across bool/int/float, lists
\* element-wise, dicts key-wise, everything else within its own type.
PyEq(a, b) ==
    IF IsNumeric(a) /\ IsNumeric(b) THEN NumOf(a) = NumOf(b)
    ELSE IF a.t # b.t THEN FALSE
    ELSE CASE a.t = "null" -> TRUE
           [] a.t = "str" -> a.s = b.s
           [] a.t = "list" ->
                /\ Len(a.l) = Len(b.l)
                /\ \A i \in 1..Len(a.l) : PyEq(a.l[i], b.l[i])
           [] a.t = "dict" ->
                /\ DOMAIN a.d = DOMAIN b.d
                /\ \A k \in DOMAIN a.d : PyEq(a.d[k], b.d[k])

-----------------------------------------------------------------------------
(* JSON text: json.dumps and json.loads *)

Tok(class, lexeme) == [k |-> class, s |-> lexeme]
LBrace == Tok("p", "{")
RBrace == Tok("p", "}")
LBrack == Tok("p", "[")
RBrack == Tok("p", "]")
Colon == Tok("p", ":")
Comma == Tok("p", ",")
StrTok(x) == Tok("str", x)

\* Decimal lexemes of the integers the model uses.
Digits == << "1", "2", "3", "4", "5", "6", "7", "8", "9" >>
IntLexeme(x) == IF x = 0 THEN "0" ELSE Digits[x]
FloatLexeme(x) == IntLexeme(x) \o ".0"
IntLexemes == {"0"} \cup {Digits[i] : i \in DOMAIN Digits}
IntOfLexeme(x) == IF x = "0" THEN 0 ELSE CHOOSE i \in DOMAIN Digits : Digits[i] = x

\* Every dict key the descriptors and responses use, in the order in which
\* json.dumps emits them (the iteration order of a dict is a function of its
\* key set alone).
KeyOrder ==
    << "afterEntryId", "beforeEntryId", "continuation", "continuationToken",
       "deleteId", "deleteIds", "differentialUpdate", "entryIds", "extra",
       "id", "listId", "movedEntryIds", "movedSongIds", "playlist",
       "playlistEntryId", "playlistId", "playlistName", "requestTime",
       "songId", "songIds", "songRefs", "success", "title", "type",
       "unavailableTrackCount" >>

KeysOf(d) == SelectSeq(KeyOrder, LAMBDA key : key \in DOMAIN d)

RECURSIVE json_dumps(_), DumpItems(_, _), DumpMembers(_, _, _)
json_dumps(v) ==
    CASE v.t = "null" -> << Tok("lit", "null") >>
      [] v.t = "bool" -> << Tok("lit", IF v.b THEN "true" ELSE "false") >>
      [] v.t = "int" -> << Tok("int", IntLexeme(v.n)) >>
      [] v.t = "float" -> << Tok("float", FloatLexeme(v.f)) >>
      [] v.t = "str" -> << StrTok(v.s) >>
      [] v.t = "list" -> << LBrack >> \o DumpItems(v.l, 1) \o << RBrack >>
      [] v.t = "dict" ->
            << LBrace >> \o DumpMembers(v.d, KeysOf(v.d), 1) \o << RBrace >>

DumpItems(items, i) ==
    IF i > Len(items) THEN << >>
    ELSE (IF i > 1 THEN << Comma >> ELSE << >>)
         \o json_dumps(items[i]) \o DumpItems(items, i + 1)

DumpMembers(d, keys, i) ==
    IF i > Len(keys) THEN << >>
    ELSE (IF i > 1 THEN << Comma >> ELSE << >>)
         \o << StrTok(keys[i]), Colon >> \o json_dumps(d[keys[i]])
         \o DumpMembers(d, keys, i + 1)

ParseFail == [ok |-> FALSE, v |-> PyNone, i |-> 0]
Parsed(v, next) == [ok |-> TRUE, v |-> v, i |-> next]
TokAt(toks, i) == IF i \in 1..Len(toks) THEN toks[i] ELSE Tok("eof", "")

RECURSIVE ParseValue(_, _), ParseItems(_, _, _), ParseMembers(_, _, _)
\* The JSON value starting at token i, and the index of the token after it.
ParseValue(toks, i) ==
    LET tk == TokAt(toks, i) IN
    CASE tk.k = "lit" /\ tk.s = "null" -> Parsed(PyNone, i + 1)
      [] tk.k = "lit" /\ tk.s = "true" -> Parsed(PyBool(TRUE), i + 1)
      [] tk.k = "lit" /\ tk.s = "false" -> Parsed(PyBool(FALSE), i + 1)
      [] tk.k = "int" -> Parsed(PyInt(IntOfLexeme(tk.s)), i + 1)
      [] tk.k = "float" ->
            Parsed(PyFloat(IntOfLexeme(CHOOSE x \in IntLexemes : x \o ".0" = tk.s)),
                   i + 1)
      [] tk.k = "str" -> Parsed(PyStr(tk.s), i + 1)
      [] tk = LBrack ->
            IF TokAt(toks, i + 1) = RBrack THEN Parsed(PyList(<< >>), i + 2)
            ELSE ParseItems(toks, i + 1, << >>)
      [] tk = LBrace ->
            IF TokAt(toks, i + 1) = RBrace THEN Parsed(EmptyDict, i + 2)
            ELSE ParseMembers(toks, i + 1, << >>)
      [] OTHER -> ParseFail

ParseItems(toks, i, acc) ==
    LET r == ParseValue(toks, i) IN
    IF ~r.ok THEN ParseFail
    ELSE IF TokAt(toks, r.i) = Comma
         THEN ParseItems(toks, r.i + 1, Append(acc, r.v))
    ELSE IF TokAt(toks, r.i) = RBrack
         THEN Parsed(PyList(Append(acc, r.v)), r.i + 1)
    ELSE ParseFail

\* A later duplicate of a key replaces the earlier one.
ParseMembers(toks, i, acc) ==
    IF TokAt(toks, i).k # "str" \/ TokAt(toks, i + 1) # Colon THEN ParseFail
    ELSE LET r == ParseValue(toks, i + 2)
             key == TokAt(toks, i).s
         IN  IF ~r.ok THEN ParseFail
             ELSE IF TokAt(toks, r.i) = Comma
                  THEN ParseMembers(toks, r.i + 1, (key :> r.v) @@ acc)
             ELSE IF TokAt(toks, r.i) = RBrace
                  THEN Parsed(PyDict((key :> r.v) @@ acc), r.i + 1)
             ELSE ParseFail

\* json.loads: the whole text must be one value (no trailing data).
json_loads(toks) ==
    LET r == ParseValue(toks, 1) IN
    IF r.ok /\ r.i = Len(toks) + 1 THEN r ELSE ParseFail


-----------------------------------------------------------------------------
(* exceptions.py, and the built-in errors the methods can raise *)

NoError == [kind |-> "none", msg |-> "", callname |-> ""]
CallFailure(message, callname) ==
    [kind |-> "CallFailure", msg |-> message, callname |-> callname]
ParseException(message) ==
    [kind |-> "ParseException", msg |-> message, callname |-> ""]
ValidationException(message) ==
    [kind |-> "ValidationException", msg |-> message, callname |-> ""]
\* TypeError and KeyError are Python's own; no handler of the module catches them.
TypeError(message) == [kind |-> "TypeError", msg |-> message, callname |-> ""]
KeyError(message) == [kind |-> "KeyError", msg |-> message, callname |-> ""]

\* What a method call produces: the value it returns, or the error it raises.
Returned(v) == [err |-> NoError, v |-> v]
Raised(e) == [err |-> e, v |-> PyNone]

-----------------------------------------------------------------------------
(* Response schemas *)

StringSchema == [type |-> "string"]
BooleanSchema == [type |-> "boolean"]
IntegerSchema == [type |-> "integer"]
ArraySchema(items) == [type |-> "array", items |-> items]
\* additionalProperties: False (NoExtras), absent (AnyExtras), or a schema
\* every undeclared key's value must match (ExtrasMatching).
NoExtras == [allowed |-> FALSE]
AnyExtras == [allowed |-> TRUE, checked |-> FALSE]
ExtrasMatching(schema) == [allowed |-> TRUE, checked |-> TRUE, schema |-> schema]
\* A schema that names no type.
AnySchema == [type |-> "any"]
ObjectSchema(properties, additional) ==
    [type |-> "object", properties |-> properties, additionalProperties |-> additional]
\* "required": False and "blank": True.
Optional(schema) == ("required" :> FALSE) @@ schema
Blankable(schema) == ("blank" :> TRUE) @@ schema

\* The metadata expectations behind song_schema are not part of the modelled
\* files; a song carries an id and nothing undeclared.
song_schema == ObjectSchema("id" :> StringSchema, NoExtras)

song_array == ArraySchema(song_schema)

pl_schema_title_required ==
    ObjectSchema("continuation" :> BooleanSchema
                   @@ "playlist" :> song_array
                   @@ "playlistId" :> StringSchema
                   @@ "unavailableTrackCount" :> IntegerSchema
                   @@ "title" :> StringSchema
                   @@ "continuationToken" :> Optional(StringSchema),
                 NoExtras)

pl_schema ==
    ObjectSchema("continuation" :> BooleanSchema
                   @@ "playlist" :> song_array
                   @@ "playlistId" :> StringSchema
                   @@ "unavailableTrackCount" :> IntegerSchema
                   @@ "title" :> Optional(StringSchema)
                   @@ "continuationToken" :> Optional(StringSchema),
                 NoExtras)

NotImplementedField == [type |-> "NotImplementedField"]
NoAttribute == [t |-> "missing"]

AddPlaylist_res_schema ==
    ObjectSchema("id" :> StringSchema
                   @@ "title" :> StringSchema
                   @@ "success" :> BooleanSchema,
                 NoExtras)

AddToPlaylist_res_schema ==
    ObjectSchema("playlistId" :> StringSchema
                   @@ "songIds" :> ArraySchema(
                         ObjectSchema("songId" :> StringSchema
                                        @@ "playlistEntryId" :> StringSchema,
                                      AnyExtras)),
                 NoExtras)

ChangePlaylistName_res_schema == ObjectSchema(<< >>, NoExtras)

ChangePlaylistOrder_res_schema ==
    ObjectSchema("afterEntryId" :> Blankable(StringSchema)
                   @@ "playlistId" :> StringSchema
                   @@ "movedSongIds" :> ArraySchema(StringSchema),
                 NoExtras)

DeletePlaylist_res_schema == ObjectSchema("deleteId" :> StringSchema, NoExtras)

DeleteSongs_res_schema ==
    ObjectSchema("listId" :> StringSchema
                   @@ "deleteIds" :> ArraySchema(StringSchema),
                 NoExtras)

\* additionalProperties is here a dict whose only key, continuationToken, is
\* no schema keyword: as the schema of the undeclared keys it names no type.
GetLibrarySongs_res_schema ==
    ObjectSchema("continuation" :> BooleanSchema
                   @@ "differentialUpdate" :> BooleanSchema
                   @@ "playlistId" :> StringSchema
                   @@ "requestTime" :> IntegerSchema
                   @@ "playlist" :> song_array,
                 ExtrasMatching(AnySchema))

expected_response == PyList(<< PyList(<< PyInt(0) >>), PyList(<< >>) >>)

-----------------------------------------------------------------------------
(* validictory.validate(data, schema), with its defaults                   *)
(* required_by_default=True and blank_by_default=False                     *)

TypeMatches(type, v) ==
    CASE type = "object" -> v.t = "dict"
      [] type = "array" -> v.t = "list"
      [] type = "string" -> v.t = "str"
      [] type = "integer" -> v.t = "int"
      [] type = "boolean" -> v.t = "bool"
      [] type = "any" -> TRUE

\* A schema without "required" has the default True, one without "blank"
\* the default False.
IsRequired(schema) == IF "required" \in DOMAIN schema THEN schema.required ELSE TRUE
MayBeBlank(schema) == IF "blank" \in DOMAIN schema THEN schema.blank ELSE FALSE

RECURSIVE FieldError(_, _)
\* The first mismatch of present value v against schema, "" when there is none.
FieldError(schema, v) ==
    IF ~TypeMatches(schema.type, v) THEN "is not of type " \o schema.type
    ELSE IF v.t = "str" /\ v.s = "" /\ ~MayBeBlank(schema) THEN "cannot be blank"
    ELSE IF schema.type = "array" THEN
        IF \A i \in 1..Len(v.l) : FieldError(schema.items, v.l[i]) = "" THEN ""
        ELSE LET i == CHOOSE j \in 1..Len(v.l) :
                        /\ FieldError(schema.items, v.l[j]) # ""
                        /\ \A h \in 1..(j - 1) : FieldError(schema.items, v.l[h]) = ""
             IN  FieldError(schema.items, v.l[i])
    ELSE IF schema.type = "object" THEN
        LET props == schema.properties
            missing == {key \in DOMAIN props :
                            IsRequired(props[key]) /\ key \notin DOMAIN v.d}
            bad == {key \in DOMAIN props \cap DOMAIN v.d :
                        FieldError(props[key], v.d[key]) # ""}
            extras == schema.additionalProperties
            undeclared == DOMAIN v.d \ DOMAIN props
            badextra == IF extras.allowed /\ extras.checked
                        THEN {key \in undeclared :
                                FieldError(extras.schema, v.d[key]) # ""}
                        ELSE {}
        IN  IF missing # {} THEN "required field is missing"
            ELSE IF bad # {}
                 THEN FieldError(props[CHOOSE key \in bad : TRUE],
                                 v.d[CHOOSE key \in bad : TRUE])
            ELSE IF ~extras.allowed /\ undeclared # {}
                 THEN "contains additional properties"
            ELSE IF badextra # {}
                 THEN FieldError(extras.schema, v.d[CHOOSE key \in badextra : TRUE])
            ELSE ""
    ELSE ""

\* Raises a ValueError (here: returns its message) on the first mismatch.
validictory_validate(data, schema) == FieldError(schema, data)


-----------------------------------------------------------------------------
(* The call classes and their static attributes *)

base_url == "https://play.google.com/music/"
service_url == base_url \o "services/"

CallClass(name, path, params, schema, literal) ==
    [name |-> name,
     static_method |-> "POST",
     static_url |-> service_url \o path,
     static_params |-> params,
     send_xt |-> TRUE,
     send_sso |-> TRUE,
     res_schema |-> schema,
     expected_response |-> literal]

ClassNames ==
    {"AddPlaylist", "AddToPlaylist", "ChangePlaylistName", "ChangePlaylistOrder",
     "DeletePlaylist", "DeleteSongs", "GetLibrarySongs", "ReportBadSongMatch"}

\* The classes as the module body leaves them.
Classes ==
    [name \in ClassNames |->
        CASE name = "AddPlaylist" ->
                CallClass(name, "addplaylist", << >>, AddPlaylist_res_schema, NoAttribute)
          [] name = "AddToPlaylist" ->
                CallClass(name, "addtoplaylist", << >>, AddToPlaylist_res_schema, NoAttribute)
          [] name = "ChangePlaylistName" ->
                CallClass(name, "modifyplaylist", << >>, ChangePlaylistName_res_schema,
                          NoAttribute)
          [] name = "ChangePlaylistOrder" ->
                CallClass(name, "changeplaylistorder", << >>,
                          ChangePlaylistOrder_res_schema, NoAttribute)
          [] name = "DeletePlaylist" ->
                CallClass(name, "deleteplaylist", << >>, DeletePlaylist_res_schema,
                          NoAttribute)
          [] name = "DeleteSongs" ->
                CallClass(name, "deletesong", << >>, DeleteSongs_res_schema, NoAttribute)
          [] name = "GetLibrarySongs" ->
                CallClass(name, "loadalltracks", << >>, GetLibrarySongs_res_schema,
                          NoAttribute)
          [] name = "ReportBadSongMatch" ->
                CallClass(name, "fixsongmatch", "format" :> "jsarray",
                          NotImplementedField, expected_response)]

-----------------------------------------------------------------------------
(* Class methods.  A class method receives the class object, so its result  *)
(* carries the class as the call leaves it besides the value or the error.  *)

Return(cls, v) == [err |-> NoError, v |-> v, cls |-> cls]
Raise(cls, e) == [err |-> e, v |-> PyNone, cls |-> cls]

\* Call._parse_json: json.loads, a ValueError becoming a ParseException.
Call_parse_json(text) ==
    LET r == json_loads(text) IN
    IF r.ok THEN Returned(r.v) ELSE Raised(ParseException("No JSON object could be decoded"))

parse_response_lenient(cls, text) ==
    LET r == Call_parse_json(text) IN
    IF r.err = NoError THEN Return(cls, r.v) ELSE Return(cls, EmptyDict)

parse_response(cls, text) ==
    LET r == Call_parse_json(text) IN
    IF r.err = NoError THEN Return(cls, r.v) ELSE Raise(cls, r.err)

\* The strings of the model that have 'success' as a substring.
HasSuccessSubstring(x) == x \in {"success", "unsuccessful"}

FailureMessage ==
    "the server reported failure. This is usually"
    \o "caused by bad arguments, but can also happen if requests"
    \o "are made too quickly (eg creating a playlist then"
    \o "modifying it before the server has created it)"

\* 'success' in res
SuccessIn(res) ==
    CASE res.t = "dict" -> "success" \in DOMAIN res.d
      [] res.t = "list" -> \E i \in 1..Len(res.l) : PyEq(res.l[i], PyStr("success"))
      [] res.t = "str" -> HasSuccessSubstring(res.s)

check_success_recording(cls, res) ==
    IF res.t \notin {"dict", "list", "str"}
    THEN Raise(cls, TypeError("argument is not iterable"))
    ELSE IF ~SuccessIn(res) THEN Return([cls EXCEPT !.expected_response = res], PyNone)
    ELSE IF res.t # "dict" THEN Raise(cls, TypeError("indices must be integers"))
    ELSE IF ~Truthy(res.d["success"])
         THEN Raise(cls, CallFailure(FailureMessage, cls.name))
    ELSE Return([cls EXCEPT !.expected_response = res], PyNone)

check_success(cls, res) ==
    IF res.t \notin {"dict", "list", "str"}
    THEN Raise(cls, TypeError("argument is not iterable"))
    ELSE IF ~SuccessIn(res) THEN Return(cls, PyNone)
    ELSE IF res.t # "dict" THEN Raise(cls, TypeError("indices must be integers"))
    ELSE IF ~Truthy(res.d["success"])
         THEN Raise(cls, CallFailure(FailureMessage, cls.name))
    ELSE Return(cls, PyNone)

\* A ValueError of validictory becomes a ValidationException with its text.
WcCall_validate(cls, res) ==
    LET e == validictory_validate(res, cls.res_schema) IN
    IF e = "" THEN Return(cls, PyNone) ELSE Raise(cls, ValidationException(e))

RECURSIVE repr(_), ReprItems(_, _), ReprMembers(_, _, _)
\* Python's repr of a value, as %r formats it.
repr(v) ==
    CASE v.t = "null" -> "None"
      [] v.t = "bool" -> (IF v.b THEN "True" ELSE "False")
      [] v.t = "int" -> IntLexeme(v.n)
      [] v.t = "float" -> FloatLexeme(v.f)
      [] v.t = "str" -> "u'" \o v.s \o "'"
      [] v.t = "list" -> "[" \o ReprItems(v.l, 1) \o "]"
      [] v.t = "dict" -> "{" \o ReprMembers(v.d, KeysOf(v.d), 1) \o "}"
      [] OTHER -> "<missing>"

ReprItems(items, i) ==
    IF i > Len(items) THEN ""
    ELSE (IF i > 1 THEN ", " ELSE "") \o repr(items[i]) \o ReprItems(items, i + 1)

ReprMembers(d, keys, i) ==
    IF i > Len(keys) THEN ""
    ELSE (IF i > 1 THEN ", " ELSE "") \o "u'" \o keys[i] \o "': " \o repr(d[keys[i]])
         \o ReprMembers(d, keys, i + 1)

ReportBadSongMatch_validate_identity(cls, res) ==
    IF res # cls.expected_response
    THEN Raise(cls, ValidationException("response != " \o repr(cls.expected_response)))
    ELSE Return(cls, PyNone)

ReportBadSongMatch_validate(cls, res) ==
    IF ~PyEq(res, cls.expected_response)
    THEN Raise(cls, ValidationException("response != " \o repr(cls.expected_response)))
    ELSE Return(cls, PyNone)

\* cls.validate, as Python dispatches it.
validate(cls, res) ==
    IF cls.name = "ReportBadSongMatch" THEN ReportBadSongMatch_validate(cls, res)
    ELSE WcCall_validate(cls, res)

-----------------------------------------------------------------------------
(* Request builders (static methods) *)

JsonField(text) == [form |-> "json", text |-> text]
RawBody(text) == [form |-> "raw", text |-> text]
NoBody == [form |-> "none", text |-> << >>]

AddPlaylist_dynamic_data(title) ==
    JsonField(json_dumps(PyDict("title" :> title)))

AddToPlaylist_dynamic_data(playlist_id, song_ids) ==
    LET song_refs == PyList([i \in 1..Len(song_ids.l) |->
                                PyDict("id" :> song_ids.l[i] @@ "type" :> PyInt(1))])
    IN  JsonField(json_dumps(PyDict("playlistId" :> playlist_id
                                      @@ "songRefs" :> song_refs)))

ChangePlaylistName_dynamic_data(playlist_id, new_name) ==
    JsonField(json_dumps(PyDict("playlistId" :> playlist_id
                                  @@ "playlistName" :> new_name)))

ChangePlaylistOrder_dynamic_data_no_default(playlist_id, song_ids_moving, entry_ids_moving, after_entry_id, before_entry_id) ==
    JsonField(json_dumps(PyDict("playlistId" :> playlist_id
                                  @@ "movedSongIds" :> song_ids_moving
                                  @@ "movedEntryIds" :> entry_ids_moving
                                  @@ "afterEntryId" :>
                                        (IF after_entry_id = PyNone THEN PyStr("")
                                         ELSE after_entry_id)
                                  @@ "beforeEntryId" :> before_entry_id)))

ChangePlaylistOrder_dynamic_data_one_anchor(playlist_id, song_ids_moving, entry_ids_moving, after_entry_id, before_entry_id) ==
    JsonField(json_dumps(PyDict("playlistId" :> playlist_id
                                  @@ "movedSongIds" :> song_ids_moving
                                  @@ "movedEntryIds" :> entry_ids_moving
                                  @@ "afterEntryId" :>
                                        (IF after_entry_id = PyNone THEN PyStr("")
                                         ELSE after_entry_id)
                                  @@ "beforeEntryId" :> PyStr(""))))

\* An omitted after_entry_id or before_entry_id is its default, None.
ChangePlaylistOrder_dynamic_data(playlist_id, song_ids_moving, entry_ids_moving, after_entry_id, before_entry_id) ==
    LET after == IF after_entry_id = PyNone THEN PyStr("") ELSE after_entry_id
        before == IF before_entry_id = PyNone THEN PyStr("") ELSE before_entry_id
    IN  JsonField(json_dumps(PyDict("playlistId" :> playlist_id
                                      @@ "movedSongIds" :> song_ids_moving
                                      @@ "movedEntryIds" :> entry_ids_moving
                                      @@ "afterEntryId" :> after
                                      @@ "beforeEntryId" :> before)))

DeletePlaylist_dynamic_data(playlist_id) ==
    JsonField(json_dumps(PyDict("id" :> playlist_id)))

\* An omitted playlist_id is 'all', an omitted entry_ids is None.
DeleteSongs_dynamic_data(song_ids, playlist_id, entry_ids) ==
    JsonField(json_dumps(PyDict("songIds" :> song_ids
                                  @@ "entryIds" :> entry_ids
                                  @@ "listId" :> playlist_id)))

GetLibrarySongs_dynamic_data_is_none(cont_token) ==
    LET req == IF cont_token = PyNone THEN EmptyDict
               ELSE PyDict("continuationToken" :> cont_token)
    IN  JsonField(json_dumps(req))

\* An omitted cont_token is None.
GetLibrarySongs_dynamic_data(cont_token) ==
    LET req == IF ~Truthy(cont_token) THEN EmptyDict
               ELSE PyDict("continuationToken" :> cont_token)
    IN  JsonField(json_dumps(req))

ReportBadSongMatch_dynamic_data(song_ids) ==
    RawBody(json_dumps(PyList(<< PyList(<< PyStr(""), PyInt(1) >>),
                                 PyList(<< song_ids >>) >>)))

\* cls.dynamic_data(*args), the arguments as a record of the parameters.
dynamic_data(name, a) ==
    CASE name = "AddPlaylist" -> AddPlaylist_dynamic_data(a.title)
      [] name = "AddToPlaylist" -> AddToPlaylist_dynamic_data(a.playlist_id, a.song_ids)
      [] name = "ChangePlaylistName" ->
            ChangePlaylistName_dynamic_data(a.playlist_id, a.new_name)
      [] name = "ChangePlaylistOrder" ->
            ChangePlaylistOrder_dynamic_data(a.playlist_id, a.song_ids_moving,
                                             a.entry_ids_moving, a.after_entry_id,
                                             a.before_entry_id)
      [] name = "DeletePlaylist" -> DeletePlaylist_dynamic_data(a.playlist_id)
      [] name = "DeleteSongs" ->
            DeleteSongs_dynamic_data(a.song_ids, a.playlist_id, a.entry_ids)
      [] name = "GetLibrarySongs" -> GetLibrarySongs_dynamic_data(a.cont_token)
      [] name = "ReportBadSongMatch" -> ReportBadSongMatch_dynamic_data(a.song_ids)

-----------------------------------------------------------------------------
(* GetLibrarySongs.filter_response *)

Min(a, b) == IF a < b THEN a ELSE b

\* utils.truncate on a list: its first max_els entries.
truncate(items, max_els) == PyList(SubSeq(items.l, 1, Min(Len(items.l), max_els)))

\* The result carries msg as the call leaves the caller's object.
FilterResult(msg, filtered, err) == [msg |-> msg, filtered |-> filtered, err |-> err]

filter_response_in_place(msg) ==
    IF msg.t # "dict"
    THEN FilterResult(msg, PyNone, TypeError("object is unsubscriptable"))
    ELSE IF "playlist" \notin DOMAIN msg.d
    THEN FilterResult(msg, PyNone, KeyError("playlist"))
    ELSE LET filtered ==
                PyDict(("playlist" :> truncate(msg.d["playlist"], 2)) @@ msg.d)
         IN  FilterResult(filtered, filtered, NoError)

\* copy.copy(msg) is a new dict with msg's entries, so the assignment to
\* filtered['playlist'] leaves msg as it was.
filter_response(msg) ==
    IF msg.t # "dict"
    THEN FilterResult(msg, PyNone, TypeError("object is unsubscriptable"))
    ELSE IF "playlist" \notin DOMAIN msg.d
    THEN FilterResult(msg, PyNone, KeyError("playlist"))
    ELSE LET copy == msg
             filtered ==
                PyDict(("playlist" :> truncate(msg.d["playlist"], 2)) @@ copy.d)
         IN  FilterResult(msg, filtered, NoError)


-----------------------------------------------------------------------------
(* Inputs *)

MaxSongs == 3
MaxMoved == 2
MaxPages == 3

Restrict(f, keys) == [key \in keys |-> f[key]]
\* Every dict made of some of the entries of full.
SubDicts(full) == {PyDict(Restrict(full, keys)) : keys \in SUBSET DOMAIN full}

Song(i) == PyDict("id" :> PyStr("s" \o IntLexeme(i)))
Songs(n) == PyList([i \in 1..n |-> Song(i)])
IdList(prefix, n) == PyList([i \in 1..n |-> PyStr(prefix \o IntLexeme(i))])

Tokens == {"", "T1", "T2"}

\* A chunk of the library: n songs, and a continuation token unless tok is None.
Page(n, tok) ==
    PyDict(("continuation" :> PyBool(FALSE)
              @@ "differentialUpdate" :> PyBool(FALSE)
              @@ "playlistId" :> PyStr("all")
              @@ "requestTime" :> PyInt(0)
              @@ "playlist" :> Songs(n))
           @@ (IF tok = PyNone THEN << >> ELSE "continuationToken" :> tok))

Scalars ==
    {PyNone, PyInt(0), PyInt(1), PyBool(FALSE), PyBool(TRUE), PyFloat(0),
     PyStr(""), PyStr("a"), PyStr("success")}

Lists ==
    {PyList(<< >>),
     PyList(<< PyStr("success") >>),
     PyList(<< PyList(<< PyInt(0) >>) >>),
     PyList(<< PyList(<< PyInt(0) >>), PyList(<< >>) >>),
     PyList(<< PyList(<< PyInt(0) >>), PyList(<< PyInt(1) >>) >>),
     PyList(<< PyList(<< PyInt(1) >>), PyList(<< >>) >>),
     PyList(<< PyList(<< PyBool(FALSE) >>), PyList(<< >>) >>),
     PyList(<< PyList(<< PyFloat(0) >>), PyList(<< >>) >>),
     PyList(<< PyList(<< PyNone >>), PyList(<< >>) >>)}

SuccessDicts ==
    {PyDict("success" :> v) :
        v \in {PyBool(FALSE), PyBool(TRUE), PyInt(0), PyNone, PyStr("no")}}

PlaylistDicts ==
    SubDicts("continuation" :> PyBool(TRUE)
               @@ "playlist" :> Songs(1)
               @@ "playlistId" :> PyStr("p")
               @@ "unavailableTrackCount" :> PyInt(0)
               @@ "title" :> PyStr("t")
               @@ "continuationToken" :> PyStr("T1")
               @@ "extra" :> PyInt(0))

CallDicts ==
    SubDicts("id" :> PyStr("a") @@ "title" :> PyStr("t")
               @@ "success" :> PyBool(TRUE) @@ "extra" :> PyInt(0))
    \cup SubDicts("id" :> PyStr("a") @@ "title" :> PyStr("")
                    @@ "success" :> PyBool(FALSE))
    \cup SubDicts("playlistId" :> PyStr("p")
                    @@ "songIds" :> PyList(<< PyDict("songId" :> PyStr("s1")
                                                @@ "playlistEntryId" :> PyStr("e1")) >>)
                    @@ "extra" :> PyInt(0))
    \cup SubDicts("afterEntryId" :> PyStr("") @@ "playlistId" :> PyStr("p")
                    @@ "movedSongIds" :> IdList("s", 1) @@ "extra" :> PyInt(0))
    \cup SubDicts("deleteId" :> PyStr("a") @@ "extra" :> PyStr("x"))
    \cup SubDicts("deleteId" :> PyInt(0) @@ "success" :> PyBool(TRUE))
    \cup SubDicts("listId" :> PyStr("all") @@ "deleteIds" :> IdList("s", 2)
                    @@ "extra" :> PyInt(0))

Pages == {Page(n, tok) : n \in 0..MaxSongs,
                         tok \in {PyNone} \cup {PyStr(x) : x \in Tokens}}

ResponseValues ==
    Scalars \cup Lists \cup SuccessDicts \cup PlaylistDicts \cup CallDicts \cup Pages

\* Texts json.loads rejects: empty, truncated, not JSON, trailing data,
\* a dangling comma, a member without a value.
Malformed ==
    {<< >>,
     << LBrace >>,
     << Tok("junk", "<html>") >>,
     << Tok("int", "0"), Tok("int", "0") >>,
     << LBrack, Tok("int", "0"), Comma, RBrack >>,
     << LBrace, StrTok("success"), RBrace >>,
     << LBrace, StrTok("success"), Colon, Tok("lit", "false") >>}

Texts == {json_dumps(v) : v \in ResponseValues} \cup Malformed

Ids == {PyStr("p"), PyStr("q")}
Anchors == {PyNone, PyStr(""), PyStr("e1"), PyStr("e2")}

\* The argument tuples a caller passes to cls.dynamic_data.
ArgSets(name) ==
    CASE name = "AddPlaylist" -> {[title |-> PyStr(x)] : x \in {"", "t"}}
      [] name = "AddToPlaylist" ->
            {[playlist_id |-> p, song_ids |-> IdList("s", n)] :
                p \in Ids, n \in 0..MaxMoved}
      [] name = "ChangePlaylistName" ->
            {[playlist_id |-> p, new_name |-> PyStr("t")] : p \in Ids}
      [] name = "ChangePlaylistOrder" ->
            {[playlist_id |-> p, song_ids_moving |-> IdList("s", n),
              entry_ids_moving |-> IdList("e", n),
              after_entry_id |-> a, before_entry_id |-> b] :
                p \in Ids, n \in 0..MaxMoved, a \in Anchors, b \in Anchors}
      [] name = "DeletePlaylist" -> {[playlist_id |-> p] : p \in Ids}
      [] name = "DeleteSongs" ->
            {[song_ids |-> IdList("s", n), playlist_id |-> p, entry_ids |-> e] :
                n \in 1..MaxMoved, p \in Ids \cup {PyStr("all")},
                e \in {PyNone, IdList("e", 1)}}
      [] name = "GetLibrarySongs" ->
            {[cont_token |-> tok] : tok \in {PyNone} \cup {PyStr(x) : x \in Tokens}}
      [] name = "ReportBadSongMatch" ->
            {[song_ids |-> IdList("s", n)] : n \in 1..MaxMoved}

\* A scripted transport: the pages it returns, in order.  Every page but the
\* last carries a continuation token.
ScriptsOfLen(n) ==
    {[i \in 1..n |-> json_dumps(Page(0, IF i < n THEN PyStr(toks[i]) ELSE PyNone))] :
        toks \in [1..(n - 1) -> Tokens]}
Scripts == UNION {ScriptsOfLen(n) : n \in 1..MaxPages}

-----------------------------------------------------------------------------
(* State *)

Callers == {"c1", "c2"}

VARIABLES
    statics,    \* the class objects, shared by all callers
    pc,         \* per caller: where its invocation stands
    desc,       \* per caller: the class it invoked
    raw,        \* per caller: the raw response text
    decoded,    \* per caller: the decoded response
    outcome,    \* per caller: the error raised, NoError when none
    stages,     \* per caller: the methods entered, in order
    logrec,     \* per caller: the record filter_response returned
    args,       \* per caller: the arguments given to dynamic_data
    body,       \* per caller: the request body dynamic_data returned
    script,     \* paginated retrieval: the pages the transport will return
    requests,   \* paginated retrieval: the request bodies issued so far
    token,      \* paginated retrieval: the token to send next
    itpc        \* paginated retrieval: off, request, await, finished

vars == << statics, pc, desc, raw, decoded, outcome, stages, logrec, args, body,
           script, requests, token, itpc >>

callvars == << statics, pc, desc, raw, decoded, outcome, stages, logrec, args, body >>
itervars == << script, requests, token, itpc >>

Init ==
    /\ statics = Classes
    /\ pc = [c \in Callers |-> "idle"]
    /\ desc = [c \in Callers |-> "AddPlaylist"]
    /\ raw = [c \in Callers |-> << >>]
    /\ decoded = [c \in Callers |-> PyNone]
    /\ outcome = [c \in Callers |-> NoError]
    /\ stages = [c \in Callers |-> << >>]
    /\ logrec = [c \in Callers |-> PyNone]
    /\ args = [c \in Callers |-> << >>]
    /\ body = [c \in Callers |-> NoBody]
    /\ script = << >>
    /\ requests = << >>
    /\ token = PyNone
    /\ itpc = "off"

-----------------------------------------------------------------------------
(* The response pipeline of one invocation *)

\* The transport hands caller c the raw text of the response to a call of d.
Invoke(c, names, texts) ==
    /\ pc[c] = "idle"
    /\ itpc = "off"
    /\ \E d \in names, t \in texts :
          /\ desc' = [desc EXCEPT ![c] = d]
          /\ raw' = [raw EXCEPT ![c] = t]
    /\ pc' = [pc EXCEPT ![c] = "raw"]
    /\ UNCHANGED << statics, decoded, outcome, stages, logrec, args, body, itervars >>

\* What a class-method call leaves behind: the class, the stage entered, and
\* either the next stage or the error that ends the invocation.
Step(c, stage, r, next) ==
    /\ statics' = [statics EXCEPT ![desc[c]] = r.cls]
    /\ stages' = [stages EXCEPT ![c] = Append(@, stage)]
    /\ IF r.err = NoError
       THEN /\ pc' = [pc EXCEPT ![c] = next]
            /\ UNCHANGED outcome
       ELSE /\ pc' = [pc EXCEPT ![c] = "failed"]
            /\ outcome' = [outcome EXCEPT ![c] = r.err]

Decode(c) ==
    /\ pc[c] = "raw"
    /\ LET r == parse_response(statics[desc[c]], raw[c]) IN
          /\ Step(c, "parse_response", r, "decoded")
          /\ decoded' = [decoded EXCEPT ![c] = r.v]
    /\ UNCHANGED << desc, raw, logrec, args, body, itervars >>

CheckSuccess(c) ==
    /\ pc[c] = "decoded"
    /\ Step(c, "check_success", check_success(statics[desc[c]], decoded[c]), "checked")
    /\ UNCHANGED << desc, raw, decoded, logrec, args, body, itervars >>

ValidateShape(c) ==
    /\ pc[c] = "checked"
    /\ Step(c, "validate", validate(statics[desc[c]], decoded[c]), "done")
    /\ UNCHANGED << desc, raw, decoded, logrec, args, body, itervars >>

\* A log record of the validated response is made; the caller keeps the decoded response.
FilterForLog(c) ==
    /\ pc[c] = "done"
    /\ desc[c] = "GetLibrarySongs"
    /\ LET r == filter_response(decoded[c]) IN
          /\ decoded' = [decoded EXCEPT ![c] = r.msg]
          /\ logrec' = [logrec EXCEPT ![c] = r.filtered]
          /\ outcome' = [outcome EXCEPT ![c] = r.err]
          /\ pc' = [pc EXCEPT ![c] = IF r.err = NoError THEN "logged" ELSE "failed"]
    /\ stages' = [stages EXCEPT ![c] = Append(@, "filter_response")]
    /\ UNCHANGED << statics, desc, raw, args, body, itervars >>

\* Caller c builds the request body of a call of d.
BuildRequest(c, names) ==
    /\ pc[c] = "idle"
    /\ itpc = "off"
    /\ \E d \in names :
          \E a \in ArgSets(d) :
             /\ desc' = [desc EXCEPT ![c] = d]
             /\ args' = [args EXCEPT ![c] = a]
             /\ body' = [body EXCEPT ![c] = dynamic_data(d, a)]
    /\ pc' = [pc EXCEPT ![c] = "built"]
    /\ stages' = [stages EXCEPT ![c] = Append(@, "dynamic_data")]
    /\ UNCHANGED << statics, raw, decoded, outcome, logrec, itervars >>

-----------------------------------------------------------------------------
(* Paginated retrieval of the library *)

StartIteration ==
    /\ itpc = "off"
    /\ \A c \in Callers : pc[c] = "idle"
    /\ script' \in Scripts
    /\ token' = PyNone
    /\ requests' = << >>
    /\ itpc' = "request"
    /\ UNCHANGED callvars

IssueRequest ==
    /\ itpc = "request"
    /\ requests' = Append(requests, GetLibrarySongs_dynamic_data(token))
    /\ itpc' = "await"
    /\ UNCHANGED << callvars, script, token >>

\* The transport answers request k with page k; the loop goes on while the
\* page holds a continuation token.
ReceivePage ==
    /\ itpc = "await"
    /\ Len(requests) <= Len(script)
    /\ LET page == parse_response(statics["GetLibrarySongs"], script[Len(requests)]).v IN
          IF "continuationToken" \in DOMAIN page.d
          THEN /\ token' = page.d["continuationToken"]
               /\ itpc' = "request"
          ELSE /\ itpc' = "finished"
               /\ UNCHANGED token
    /\ UNCHANGED << callvars, script, requests >>

-----------------------------------------------------------------------------
(* Specifications *)

\* One caller: every class, every response text, every argument tuple.
Next ==
    \/ Invoke("c1", ClassNames, Texts)
    \/ Decode("c1")
    \/ CheckSuccess("c1")
    \/ ValidateShape("c1")
    \/ FilterForLog("c1")
    \/ BuildRequest("c1", ClassNames)
    \/ StartIteration
    \/ IssueRequest
    \/ ReceivePage

Spec == Init /\ [][Next]_vars

ConcNames == {"AddPlaylist", "GetLibrarySongs", "ReportBadSongMatch"}
ConcBuilders == {"GetLibrarySongs", "ReportBadSongMatch"}
ConcTexts ==
    {json_dumps(v) :
        v \in {PyDict("success" :> PyBool(FALSE)), PyInt(0), Page(MaxSongs, PyNone),
               expected_response,
               PyList(<< PyList(<< PyInt(0) >>), PyList(<< PyInt(1) >>) >>)}}
    \cup {<< LBrace >>}

\* Two callers, their method calls interleaved in every order.
NextConc ==
    \E c \in Callers :
        \/ Invoke(c, ConcNames, ConcTexts)
        \/ Decode(c)
        \/ CheckSuccess(c)
        \/ ValidateShape(c)
        \/ FilterForLog(c)
        \/ BuildRequest(c, ConcBuilders)

SpecConc == Init /\ [][NextConc]_vars

-----------------------------------------------------------------------------
(* Properties *)

Entered(c, stage) == \E i \in 1..Len(stages[c]) : stages[c][i] = stage
LastStage(c) == stages[c][Len(stages[c])]
\* The stage failed: it was the last one entered and raised.
FailedAt(c, stage) ==
    pc[c] = "failed" /\ Len(stages[c]) > 0 /\ LastStage(c) = stage
HasIndicator(v) == v.t = "dict" /\ "success" \in DOMAIN v.d
Literal == PyList(<< PyList(<< PyInt(0) >>), PyList(<< >>) >>)
LiteralMessage == "response != [[0], []]"

\* C1: for every class, check_success on a decoded response that holds
\* success = false raises a CallFailure whose callname is the class name
\* (whatever validate would say of the value), and a decoded response
\* without the indicator passes check_success.
C1_SuccessCheck ==
    \A c \in Callers :
        Entered(c, "check_success") =>
            /\ (HasIndicator(decoded[c]) /\ decoded[c].d["success"] = PyBool(FALSE)) =>
                  /\ FailedAt(c, "check_success")
                  /\ outcome[c].kind = "CallFailure"
                  /\ outcome[c].callname = desc[c]
            /\ ~HasIndicator(decoded[c]) => ~FailedAt(c, "check_success")

\* C2: a raw text json.loads rejects ends the invocation in a
\* ParseException with parse_response the only stage entered; the stages
\* entered are always a prefix of parse_response, check_success, validate,
\* filter_response, and an error leaves the invocation failed.
C2_ParseFailureHalts ==
    \A c \in Callers :
        /\ (pc[c] \notin {"idle", "raw", "built"} /\ raw[c] \in Malformed) =>
              /\ pc[c] = "failed"
              /\ outcome[c].kind = "ParseException"
              /\ stages[c] = << "parse_response" >>
        /\ pc[c] # "built" =>
              stages[c] = SubSeq(<< "parse_response", "check_success", "validate",
                                    "filter_response" >>, 1, Len(stages[c]))
        /\ outcome[c] # NoError => pc[c] = "failed"

C2_Witness ==
    \E c \in Callers : raw[c] \in Malformed /\ pc[c] = "failed"

\* C3 as stated: ReportBadSongMatch.validate succeeds exactly on the value
\* [[0], []] itself, and every other value raises a ValidationException
\* quoting the literal.
C3_LiteralOnly ==
    \A c \in Callers :
        (desc[c] = "ReportBadSongMatch" /\ Entered(c, "validate")) =>
            /\ pc[c] = "done" <=> decoded[c] = Literal
            /\ pc[c] # "done" =>
                  /\ FailedAt(c, "validate")
                  /\ outcome[c] = ValidationException(LiteralMessage)

\* C3 amended: ReportBadSongMatch.validate succeeds exactly on the values
\* that equal [[0], []] under Python's ==, which are the literal itself and
\* the values with false or 0.0 in place of its 0; every other value raises
\* a ValidationException quoting the literal.
C3_LiteralUpToPythonEquality ==
    \A c \in Callers :
        (desc[c] = "ReportBadSongMatch" /\ Entered(c, "validate")) =>
            /\ pc[c] = "done" <=>
                  decoded[c] \in {Literal,
                              PyList(<< PyList(<< PyBool(FALSE) >>), PyList(<< >>) >>),
                              PyList(<< PyList(<< PyFloat(0) >>), PyList(<< >>) >>)}
            /\ pc[c] # "done" =>
                  /\ FailedAt(c, "validate")
                  /\ outcome[c] = ValidationException(LiteralMessage)

C3_Witness ==
    \E c \in Callers :
        /\ desc[c] = "ReportBadSongMatch"
        /\ pc[c] = "done"
        /\ decoded[c] = PyList(<< PyList(<< PyBool(FALSE) >>), PyList(<< >>) >>)

\* C4: an invocation that has ended has exactly one of four outcomes: the
\* validated decoded value, a ParseException, a CallFailure or a
\* ValidationException; no decodable text yields any other error.
C4_FourOutcomes ==
    \A c \in Callers :
        pc[c] \in {"failed", "done", "logged"} =>
            IF pc[c] = "failed"
            THEN outcome[c].kind \in {"ParseException", "CallFailure",
                                      "ValidationException"}
            ELSE outcome[c] = NoError /\ decoded[c] = json_loads(raw[c]).v

TokenIn(v) ==
    IF "continuationToken" \in DOMAIN v.d THEN v.d["continuationToken"] ELSE PyNone
\* The token page k returned, and the token request k carried (None: none).
PageToken(k) == TokenIn(json_loads(script[k]).v)
RequestToken(k) == TokenIn(json_loads(requests[k].text).v)

Sent(anchor) == IF anchor = PyNone THEN PyStr("") ELSE anchor
Built(c, name) == pc[c] = "built" /\ desc[c] = name
\* The body ChangePlaylistOrder builds from c's arguments with other anchors.
Reordered(c, after, before) ==
    ChangePlaylistOrder_dynamic_data(args[c].playlist_id, args[c].song_ids_moving,
                                     args[c].entry_ids_moving, after, before)

\* C6: the body ChangePlaylistOrder.dynamic_data builds with an anchor
\* omitted is the body it builds with that anchor given as ""; the body
\* always holds afterEntryId and beforeEntryId, each "" when its anchor is
\* unset and the entry id supplied otherwise.
C6_OmittedAnchorIsSentinel ==
    \A c \in Callers :
        Built(c, "ChangePlaylistOrder") =>
            LET sent == json_loads(body[c].text).v.d IN
            /\ body[c] = Reordered(c, Sent(args[c].after_entry_id),
                                   Sent(args[c].before_entry_id))
            /\ {"afterEntryId", "beforeEntryId"} \subseteq DOMAIN sent
            /\ sent["afterEntryId"] = Sent(args[c].after_entry_id)
            /\ sent["beforeEntryId"] = Sent(args[c].before_entry_id)
            /\ sent["playlistId"] = args[c].playlist_id
            /\ sent["movedSongIds"] = args[c].song_ids_moving
            /\ sent["movedEntryIds"] = args[c].entry_ids_moving

C6_Witness ==
    \E c \in Callers :
        /\ Built(c, "ChangePlaylistOrder")
        /\ args[c].after_entry_id = PyNone
        /\ args[c].before_entry_id = PyStr("e1")
        /\ Len(args[c].song_ids_moving.l) = MaxMoved

NeitherAnchor(c) ==
    /\ Built(c, "ChangePlaylistOrder")
    /\ args[c].after_entry_id = PyNone
    /\ args[c].before_entry_id = PyNone

\* C7 as stated: the body built with neither anchor differs from the body
\* built, from the same other arguments, with an anchor given as "".
C7_SentinelDistinguishable ==
    \A c \in Callers :
        NeitherAnchor(c) =>
            /\ body[c] # Reordered(c, PyStr(""), PyNone)
            /\ body[c] # Reordered(c, PyNone, PyStr(""))
            /\ body[c] # Reordered(c, PyStr(""), PyStr(""))

\* C7 amended: the body built with neither anchor differs from the body
\* built, from the same other arguments, with an anchor given as an entry
\* id exactly when that entry id is not the empty string.
C7_OnlyEntryIdsDistinguishable ==
    \A c \in Callers :
        NeitherAnchor(c) =>
            \A x \in Anchors \ {PyNone} :
                /\ body[c] # Reordered(c, x, PyNone) <=> x # PyStr("")
                /\ body[c] # Reordered(c, PyNone, x) <=> x # PyStr("")

C7_Witness ==
    \E c \in Callers : NeitherAnchor(c) /\ Len(args[c].entry_ids_moving.l) >= 1

\* Every value v holds under a key the schema declares is valid for that
\* key's schema.
TypeCorrect(schema, v) ==
    /\ v.t = "dict"
    /\ \A key \in DOMAIN schema.properties \cap DOMAIN v.d :
          validictory_validate(v.d[key], schema.properties[key]) = ""

\* The keys the closed response schemas must and may hold.
ClosedKeys ==
    "AddPlaylist" :> [must |-> {"id", "title", "success"}, may |-> {}]
    @@ "AddToPlaylist" :> [must |-> {"playlistId", "songIds"}, may |-> {}]
    @@ "ChangePlaylistName" :> [must |-> {}, may |-> {}]
    @@ "ChangePlaylistOrder" :>
          [must |-> {"afterEntryId", "playlistId", "movedSongIds"}, may |-> {}]
    @@ "DeletePlaylist" :> [must |-> {"deleteId"}, may |-> {}]
    @@ "DeleteSongs" :> [must |-> {"listId", "deleteIds"}, may |-> {}]
PlaylistKeys ==
    [must |-> {"continuation", "playlist", "playlistId", "unavailableTrackCount"},
     may |-> {"title", "continuationToken"}]
KeysFit(v, keys) ==
    keys.must \subseteq DOMAIN v.d /\ DOMAIN v.d \subseteq keys.must \cup keys.may
\* A call class whose response schema is pl_schema.
PlaylistCall == [Classes["AddPlaylist"] EXCEPT !.res_schema = pl_schema]

\* C8: WcCall.validate with a closed object schema accepts a decoded object
\* whose values fit their declared properties exactly when its keys include
\* every property not marked required False and no undeclared key; a
\* rejection is a ValidationException.  Checked for the closed schema of
\* every class and for pl_schema.
C8_ClosedSchemaKeys ==
    \A c \in Callers :
        /\ (/\ Entered(c, "validate")
            /\ desc[c] \in DOMAIN ClosedKeys
            /\ TypeCorrect(statics[desc[c]].res_schema, decoded[c])) =>
              /\ pc[c] = "done" <=> KeysFit(decoded[c], ClosedKeys[desc[c]])
              /\ pc[c] # "done" =>
                    FailedAt(c, "validate") /\ outcome[c].kind = "ValidationException"
        /\ (Entered(c, "parse_response") /\ pc[c] # "failed"
            /\ TypeCorrect(pl_schema, decoded[c])) =>
              LET r == WcCall_validate(PlaylistCall, decoded[c]) IN
              /\ r.err = NoError <=> KeysFit(decoded[c], PlaylistKeys)
              /\ r.err.kind \in {"none", "ValidationException"}

C8_Witness ==
    \E c \in Callers :
        /\ desc[c] = "DeletePlaylist"
        /\ FailedAt(c, "validate")
        /\ TypeCorrect(pl_schema, decoded[c])
        /\ DOMAIN decoded[c].d = PlaylistKeys.must \cup {"continuationToken"}

\* C9: GetLibrarySongs.filter_response leaves the decoded response as
\* parse_response produced it, and the record it returns equals the
\* response in every field but playlist, which holds the first two
\* entries of the response's playlist (all of them when at most two).
C9_FilterLeavesResponse ==
    \A c \in Callers :
        pc[c] = "logged" =>
            LET full == json_loads(raw[c]).v
                kept == Min(2, Len(full.d["playlist"].l))
            IN  /\ decoded[c] = full
                /\ logrec[c].t = "dict"
                /\ DOMAIN logrec[c].d = DOMAIN full.d
                /\ \A key \in DOMAIN full.d \ {"playlist"} :
                      logrec[c].d[key] = full.d[key]
                /\ logrec[c].d["playlist"].t = "list"
                /\ Len(logrec[c].d["playlist"].l) = kept
                /\ \A i \in 1..kept :
                      logrec[c].d["playlist"].l[i] = full.d["playlist"].l[i]

C9_Witness ==
    \E c \in Callers :
        /\ pc[c] = "logged"
        /\ Len(decoded[c].d["playlist"].l) = MaxSongs
        /\ Len(logrec[c].d["playlist"].l) = 2
        /\ "continuationToken" \in DOMAIN logrec[c].d

\* One invocation on its own, on the classes as constructed.
Alone(name, t) ==
    LET p == parse_response(Classes[name], t)
        s == check_success(Classes[name], p.v)
        v == validate(Classes[name], p.v)
    IN  IF p.err # NoError THEN [ok |-> FALSE, err |-> p.err, res |-> PyNone]
        ELSE IF s.err # NoError THEN [ok |-> FALSE, err |-> s.err, res |-> p.v]
        ELSE IF v.err # NoError THEN [ok |-> FALSE, err |-> v.err, res |-> p.v]
        ELSE [ok |-> TRUE, err |-> NoError, res |-> p.v]

\* C10: however the method calls of two callers interleave, the static
\* attributes of every class stay as constructed, and every invocation
\* ends as it would have ended on its own.
C10_InterleavingInvisible ==
    /\ statics = Classes
    /\ \A c \in Callers :
          /\ pc[c] \in {"failed", "done", "logged"} =>
                LET a == Alone(desc[c], raw[c]) IN
                /\ outcome[c] = a.err
                /\ pc[c] = "failed" <=> ~a.ok
                /\ a.ok => decoded[c] = a.res
                /\ pc[c] = "logged" => logrec[c] = filter_response(a.res).filtered
          /\ pc[c] = "built" => body[c] = dynamic_data(desc[c], args[c])

C10_Witness ==
    /\ desc["c1"] = "ReportBadSongMatch"
    /\ desc["c2"] = "ReportBadSongMatch"
    /\ pc["c1"] = "done"
    /\ FailedAt("c2", "validate")
    /\ statics = Classes

=============================================================================
